---------------------------- MODULE Spec2Model ----------------------------
(***************************************************************************)
(* AutoSlides MCP: the slide-layout composer (tools/slides.py), the tools  *)
(* it is driven by (tools/scripts.py, tools/images.py) and the two HTTP    *)
(* entry points of main.py (/generate, /mcp and /download).                *)
(*                                                                         *)
(* Lengths are EMU (914400 to the inch), as python-pptx's Inches() gives.  *)
(* Inside place_images the code works with floats (avail_w / cols,         *)
(* MARGIN_X / 2); every such value is a multiple of 1/2 because cols and   *)
(* rows are 1 or 2, so those quantities are kept exactly, in half-EMU, in  *)
(* the definitions and fields whose names end in 2.                        *)
(***************************************************************************)
EXTENDS Integers, Sequences, FiniteSets, TLC

VARIABLES
    canvas,      \* _Deck.width, _Deck.height
    ratio,       \* LEFT_COL_RATIO, in hundredths
    dirs,        \* directories that exist on disk
    deck,        \* _deck.prs.slides, the global presentation
    calls,       \* history: arguments of every add_bullet_slide call, in call order
    artifact,    \* the file written by the last successful save (or NoArtifact)
    files,       \* paths of the files that exist on disk
    pc,          \* position of the /generate handler
    req,         \* the GenerateRequest being served
    script,      \* script_data["slides"] of the request being served
    idx,         \* loop position in script (1-based)
    last         \* the request handled last: entry point, argument, response, external calls made

vars == <<canvas, ratio, dirs, deck, calls, artifact, files, pc, req, script, idx, last>>

\* ------------------------------------------------------------------------
\* Configuration (tools/slides.py)
\* ------------------------------------------------------------------------
IMAGE_MAX_W == 3200400
IMAGE_MAX_H == 2743200
LEFT_COL_RATIO == 55
RatioDen == 100
MARGIN_X == 365760
MARGIN_Y_TOP == 1371600
OUT_DIR == <<"slides">>

\* width, height of Presentation() without a template (python-pptx default)
DefaultCanvas == [width |-> 9144000, height |-> 6858000]

\* ------------------------------------------------------------------------
\* Bounds and input sets
\* ------------------------------------------------------------------------
MaxBullets == 2
MaxNotesLen == 2
MaxDeck == 2
MaxScript == 2

\* canvases a template can give: default 4:3, 16:9, and small templates
Canvases ==
    { DefaultCanvas,
      [width |-> 12192000, height |-> 6858000],
      [width |-> 4572000, height |-> 3429000],
      [width |-> 1828800, height |-> 1828800],
      [width |-> 914400, height |-> 914400] }

Ratios == {5, 25, 50, LEFT_COL_RATIO, 75, 95}

Min(a, b) == IF a <= b THEN a ELSE b

\* all sequences over S of length 0..n
RECURSIVE SeqsUpTo(_, _)
SeqsUpTo(S, n) ==
    IF n = 0 THEN {<<>>}
    ELSE LET shorter == SeqsUpTo(S, n - 1)
         IN  shorter \cup {Append(s, x) : s \in {t \in shorter : Len(t) = n - 1}, x \in S}

\* ------------------------------------------------------------------------
\* Geometry (add_bullet_slide, lines 77-81; _place_images, lines 125-127)
\* ------------------------------------------------------------------------
\* int(self.width * LEFT_COL_RATIO); for widths below 2^31 the float product
\* truncates to the same integer as the exact quotient
LeftColWidth(cv, r) == (cv.width * r) \div RatioDen

\* BulletRegion with the sign of the margin term slipped
BulletRegionWide(cv, r) ==
    [left   |-> MARGIN_X,
     top    |-> MARGIN_Y_TOP,
     width  |-> LeftColWidth(cv, r) + MARGIN_X * 2,
     height |-> cv.height - (MARGIN_Y_TOP + MARGIN_X)]

\* body_shape.left/top/width/height
BulletRegion(cv, r) ==
    [left   |-> MARGIN_X,
     top    |-> MARGIN_Y_TOP,
     width  |-> LeftColWidth(cv, r) - MARGIN_X * 2,
     height |-> cv.height - (MARGIN_Y_TOP + MARGIN_X)]

\* img_left, avail_w, avail_h and top_start
ImageRegion(cv, r) ==
    LET img_left == LeftColWidth(cv, r) + MARGIN_X
    IN  [left   |-> img_left,
         top    |-> MARGIN_Y_TOP,
         width  |-> cv.width - img_left - MARGIN_X,
         height |-> cv.height - MARGIN_Y_TOP]

\* ------------------------------------------------------------------------
\* Image placement grid (_place_images, lines 129-154)
\* ------------------------------------------------------------------------
\* cols, rows, img_w, img_h for n urls; img_w2, img_h2 are in half-EMU
Grid(cv, r, n) ==
    LET region == ImageRegion(cv, r)
        cols   == IF n = 1 THEN 1 ELSE 2
        rows   == (n + cols - 1) \div cols
    IN  [img_left |-> region.left,
         top_start |-> region.top,
         cols   |-> cols,
         rows   |-> rows,
         img_w2 |-> Min(2 * IMAGE_MAX_W, (2 * region.width) \div cols),
         img_h2 |-> Min(2 * IMAGE_MAX_H, (2 * region.height) \div rows)]

\* the picture add_picture draws for url at the loop's current (col, row)
Picture(g, url, col, row) ==
    [url     |-> url,
     left2   |-> 2 * g.img_left + col * (g.img_w2 + MARGIN_X),
     top2    |-> 2 * g.top_start + row * (g.img_h2 + MARGIN_X),
     width2  |-> g.img_w2,
     height2 |-> g.img_h2]

\* PlaceLoop advancing the cell only after a successful download
RECURSIVE PlaceLoopCompacting(_, _, _, _, _, _, _)
PlaceLoopCompacting(g, urls, ok, i, col, row, shapes) ==
    IF i > Len(urls) THEN shapes
    ELSE IF i \notin ok THEN PlaceLoopCompacting(g, urls, ok, i + 1, col, row, shapes)
    ELSE LET drawn == Append(shapes, Picture(g, urls[i], col, row))
             col1  == col + 1
         IN  IF col1 >= g.cols
             THEN PlaceLoopCompacting(g, urls, ok, i + 1, 0, row + 1, drawn)
             ELSE PlaceLoopCompacting(g, urls, ok, i + 1, col1, row, drawn)

\* the for loop: urls[i] is drawn when its fetch and decode succeed (i \in ok),
\* skipped otherwise; col and row advance either way
RECURSIVE PlaceLoop(_, _, _, _, _, _, _)
PlaceLoop(g, urls, ok, i, col, row, shapes) ==
    IF i > Len(urls) THEN shapes
    ELSE LET drawn == IF i \in ok THEN Append(shapes, Picture(g, urls[i], col, row))
                                  ELSE shapes
             col1  == col + 1
         IN  IF col1 >= g.cols
             THEN PlaceLoop(g, urls, ok, i + 1, 0, row + 1, drawn)
             ELSE PlaceLoop(g, urls, ok, i + 1, col1, row, drawn)

place_images(cv, r, urls, ok) ==
    PlaceLoop(Grid(cv, r, Len(urls)), urls, ok, 1, 0, 0, <<>>)

\* ------------------------------------------------------------------------
\* Text frames (python-pptx calls made by add_bullet_slide)
\* ------------------------------------------------------------------------
\* body_tf.clear(): one empty paragraph remains
ClearedFrame == <<"">>

\* BulletLoop giving every bullet, the first included, a new paragraph
RECURSIVE BulletLoopAppending(_, _, _)
BulletLoopAppending(bullets, i, paras) ==
    IF i > Len(bullets) THEN paras
    ELSE BulletLoopAppending(bullets, i + 1, Append(paras, bullets[i]))

\* the loop over enumerate(bullets): the first bullet reuses paragraphs[0],
\* every later one goes to a new paragraph
RECURSIVE BulletLoop(_, _, _)
BulletLoop(bullets, i, paras) ==
    IF i > Len(bullets) THEN paras
    ELSE IF i = 1
         THEN BulletLoop(bullets, i + 1, [paras EXCEPT ![1] = bullets[i]])
         ELSE BulletLoop(bullets, i + 1, Append(paras, bullets[i]))

\* notes_text_frame.text = notes: one paragraph per "\n"-separated line
RECURSIVE SplitLines(_, _, _)
SplitLines(text, i, acc) ==
    IF i > Len(text) THEN acc
    ELSE IF text[i] = "\n"
         THEN SplitLines(text, i + 1, Append(acc, <<>>))
         ELSE SplitLines(text, i + 1,
                         [acc EXCEPT ![Len(acc)] = Append(acc[Len(acc)], text[i])])

SetFrameText(text) == SplitLines(text, 1, << <<>> >>)

\* notes_text_frame.text read back: the paragraphs joined by "\n"
RECURSIVE GetFrameText(_)
GetFrameText(paras) ==
    IF Len(paras) = 0 THEN <<>>
    ELSE IF Len(paras) = 1 THEN paras[1]
    ELSE paras[1] \o <<"\n">> \o GetFrameText(Tail(paras))

\* ------------------------------------------------------------------------
\* _Deck.add_bullet_slide (lines 56-95)
\* ------------------------------------------------------------------------
\* An optional argument is a set: {} for None, {v} for the value v.
None == {}
Some(v) == {v}
Val(opt) == CHOOSE v \in opt : TRUE

\* FirstFour without the cap
FirstFourUncapped(images) == images

\* images[:4]
FirstFour(images) == SubSeq(images, 1, Min(4, Len(images)))

\* `if images:` and `if notes:` are truth tests: None and the empty value both fail
Truthy(opt) == opt # None /\ Len(Val(opt)) > 0

\* NewSlide without the notes step
NewSlideNotesDropped(cv, r, title, bullets, images, notes, ok) ==
    [title      |-> title,
     body       |-> BulletRegion(cv, r),
     paragraphs |-> BulletLoop(bullets, 1, ClearedFrame),
     pictures   |-> IF Truthy(images)
                    THEN place_images(cv, r, FirstFour(Val(images)), ok)
                    ELSE <<>>,
     notes      |-> None]

\* the slide add_bullet_slide builds; ok is the set of positions in images[:4]
\* whose download and decode succeed
NewSlide(cv, r, title, bullets, images, notes, ok) ==
    [title      |-> title,
     body       |-> BulletRegion(cv, r),
     paragraphs |-> BulletLoop(bullets, 1, ClearedFrame),
     pictures   |-> IF Truthy(images)
                    THEN place_images(cv, r, FirstFour(Val(images)), ok)
                    ELSE <<>>,
     notes      |-> IF Truthy(notes) THEN Some(SetFrameText(Val(notes))) ELSE None]

\* add_bullet_slide putting the new slide first
add_bullet_slide_first(d, cv, r, title, bullets, images, notes, ok) ==
    <<NewSlide(cv, r, title, bullets, images, notes, ok)>> \o d

\* self.prs.slides.add_slide(layout) and the mutations of the new slide
add_bullet_slide(d, cv, r, title, bullets, images, notes, ok) ==
    Append(d, NewSlide(cv, r, title, bullets, images, notes, ok))

\* ------------------------------------------------------------------------
\* utils/slugify.py
\* ------------------------------------------------------------------------
\* A string is a sequence of one-character strings. The characters a topic
\* is made of, by the branch of slugify they take:
LowerAlnum == {"a", "b", "1"}
UpperAlpha == {"A"}
Accented   == {"é"}
DashLike   == {" ", "-", "_", "."}
Dropped    == {"!", "/"}

\* NFKD + drop combining marks + lower()
FoldChar(ch) ==
    IF ch = "A" THEN "a" ELSE IF ch = "é" THEN "e" ELSE ch

RECURSIVE SafeChars(_)
SafeChars(text) ==
    IF Len(text) = 0 THEN <<>>
    ELSE LET ch == FoldChar(Head(text))
         IN  IF ch \in LowerAlnum \cup {"e"} THEN <<ch>> \o SafeChars(Tail(text))
             ELSE IF ch \in DashLike THEN <<"-">> \o SafeChars(Tail(text))
             ELSE SafeChars(Tail(text))

\* while "--" in slug: slug = slug.replace("--", "-")
RECURSIVE CollapseDashes(_)
CollapseDashes(slug) ==
    IF Len(slug) < 2 THEN slug
    ELSE IF slug[1] = "-" /\ slug[2] = "-" THEN CollapseDashes(Tail(slug))
    ELSE <<slug[1]>> \o CollapseDashes(Tail(slug))

\* slug.strip("-")
RECURSIVE StripDashes(_)
StripDashes(slug) ==
    IF Len(slug) = 0 THEN slug
    ELSE IF slug[1] = "-" THEN StripDashes(Tail(slug))
    ELSE IF slug[Len(slug)] = "-" THEN StripDashes(SubSeq(slug, 1, Len(slug) - 1))
    ELSE slug

slugify(text) ==
    LET slug == StripDashes(CollapseDashes(SafeChars(text)))
    IN  IF Len(slug) = 0 THEN <<"d", "e", "c", "k">> ELSE slug

\* ------------------------------------------------------------------------
\* _Deck.save (tools/slides.py, lines 101-106)
\* ------------------------------------------------------------------------
\* A path is the sequence of its components; a file name is a string with
\* the suffix as its last element.
DefaultName == <<"deck_", "%Y%m%d_%H%M%S", ".pptx">>

\* filename is an optional relative path; the result is the path written, or
\* raised when the directory of the target does not exist
save(filename, existing) ==
    LET rel  == IF filename = None \/ Len(Val(filename)) = 0
                THEN <<DefaultName>> ELSE Val(filename)
        path == OUT_DIR \o rel
    IN  IF SubSeq(path, 1, Len(path) - 1) \in existing
        THEN [raised |-> FALSE, path |-> path]
        ELSE [raised |-> TRUE, path |-> path]

\* Path.resolve(): the path made absolute; the paths of the model have no
\* ".." or symlink left in them
CWD == <<"cwd">>
resolve(path) == CWD \o path

\* Path(p).name
PathName(path) == path[Len(path)]

\* ------------------------------------------------------------------------
\* tools/scripts.py : write_script
\* ------------------------------------------------------------------------
\* data["slides"][:slides], with Python's meaning of a negative stop
Truncate(list, n) ==
    IF n >= 0 THEN SubSeq(list, 1, Min(n, Len(list)))
    ELSE SubSeq(list, 1, Len(list) + n)

\* out is what the LLM call produced: an APIError, text that is not JSON,
\* JSON without a "slides" list, or JSON with the list out.slides
write_script(slides, out) ==
    IF out.kind # "json_slides"
    THEN [raised |-> TRUE, slides |-> <<>>]
    ELSE [raised |-> FALSE,
          slides |-> IF Len(out.slides) # slides THEN Truncate(out.slides, slides)
                     ELSE out.slides]

\* ------------------------------------------------------------------------
\* tools/images.py : fetch_images
\* ------------------------------------------------------------------------
FETCH_N_MIN == 1
FETCH_N_MAX == 50

Urls == <<"u1", "u2", "u3", "u4", "u5">>

\* n is rejected before the search; found is what Unsplash answered: an HTTP
\* error status, or a number of photos (0 gives n copies of the fallback URL,
\* more than n is cut to n)
fetch_images(n, found) ==
    IF n < FETCH_N_MIN \/ n > FETCH_N_MAX
    THEN [raised |-> TRUE, searched |-> FALSE, urls |-> <<>>]
    ELSE IF found.error
    THEN [raised |-> TRUE, searched |-> TRUE, urls |-> <<>>]
    ELSE IF found.count = 0
    THEN [raised |-> FALSE, searched |-> TRUE, urls |-> [i \in 1..n |-> "fallback"]]
    ELSE [raised |-> FALSE, searched |-> TRUE,
          urls |-> SubSeq(Urls, 1, Min(n, Min(found.count, Len(Urls))))]

\* ------------------------------------------------------------------------
\* main.py : request validation and the state the handlers share
\* ------------------------------------------------------------------------
SLIDES_GE == 1
SLIDES_LE == 20
IMAGES_GE == 0
IMAGES_LE == 4
SLIDES_DIR == <<"slides">>

\* ValidGenerateRequest with the upper limits off by one
ValidGenerateRequestLax(r) ==
    /\ r.slides >= SLIDES_GE /\ r.slides <= SLIDES_LE + 1
    /\ r.images_per_slide >= IMAGES_GE /\ r.images_per_slide <= IMAGES_LE + 1

\* pydantic's check of GenerateRequest.slides and .images_per_slide
ValidGenerateRequest(r) ==
    /\ r.slides >= SLIDES_GE /\ r.slides <= SLIDES_LE
    /\ r.images_per_slide >= IMAGES_GE /\ r.images_per_slide <= IMAGES_LE

NoArtifact == [path |-> <<>>, slides |-> <<>>, written |-> FALSE]
NoReq == [topic |-> <<>>, slides |-> 0, images_per_slide |-> 0,
          filename |-> None, notes |-> None]

\* the record of one add_bullet_slide call
Call(title, bullets, images, notes, ok) ==
    [title |-> title, bullets |-> bullets, images |-> images, notes |-> notes, ok |-> ok]

\* the record of the request being handled; file and url are the "file" and
\* "url" members of the body answered (the file served, for /download)
Handled(handler, slides, images, response, ext, before) ==
    [handler |-> handler, slides |-> slides, images |-> images,
     response |-> response, ext |-> ext, before |-> before,
     file |-> <<>>, url |-> <<>>]

\* ------------------------------------------------------------------------
\* Inputs
\* ------------------------------------------------------------------------
Titles == {"T1", "T2"}
BulletChars == {"b1", "b2"}
NoteChars == {"a", "\n"}

\* what a caller of create_slide can pass
AllBullets == SeqsUpTo(BulletChars, MaxBullets)
AllImages == {None} \cup {Some(SubSeq(Urls, 1, n)) : n \in 0..Len(Urls)}
AllNotes ==
    {None, Some(<<"a", "\n", "a">>)} \cup {Some(t) : t \in SeqsUpTo(NoteChars, MaxNotesLen)}
OkSets(images) ==
    IF Truthy(images) THEN SUBSET (1..Len(FirstFour(Val(images)))) ELSE {{}}

\* what the requests of the deck-level specification carry (the file-level
\* specification varies the topic and the filename)
GenTopics == {<<"A", " ", "b">>}
GenFilenames == {None}
GenNotes == {None}
GenSlideCounts == {SLIDES_GE - 1, SLIDES_GE, SLIDES_LE, SLIDES_LE + 1}
GenImageCounts == {IMAGES_GE - 1, IMAGES_GE, 1, IMAGES_LE + 1}
GenBullets == {<<"b1", "b2">>}
\* a request has at most one count out of range
GenerateRequests ==
    {r \in [topic : GenTopics, slides : GenSlideCounts, images_per_slide : GenImageCounts,
            filename : GenFilenames, notes : GenNotes] :
        \/ r.slides = SLIDES_GE /\ r.images_per_slide = IMAGES_GE
        \/ r.slides \in SLIDES_GE..SLIDES_LE
        \/ r.images_per_slide \in IMAGES_GE..IMAGES_LE}

\* entries of the "slides" list the LLM can return: well formed, or missing a key
SlideData ==
    [title : Titles, bullets : GenBullets] \cup [title : {"T1"}] \cup [bullets : GenBullets]
LlmOutcomes ==
    {[kind |-> k, slides |-> <<>>] : k \in {"api_error", "not_json", "no_slides"}}
    \cup {[kind |-> "json_slides", slides |-> l] : l \in SeqsUpTo(SlideData, MaxScript)}
SearchOutcomes == {[error |-> TRUE, count |-> 0]} \cup {[error |-> FALSE, count |-> c] : c \in 0..1}
GenSearchOutcomes == {[error |-> TRUE, count |-> 0], [error |-> FALSE, count |-> 1]}

\* answers of the LLM to a write_script call made over /mcp
McpLlmOutcomes ==
    {o \in LlmOutcomes : \A i \in 1..Len(o.slides) : o.slides[i] = [title |-> "T1"]}
McpSlideCounts == {SLIDES_GE - 1, SLIDES_GE, SLIDES_LE + 1}
McpImageCounts == {FETCH_N_MIN - 1, FETCH_N_MIN, IMAGES_LE + 1, FETCH_N_MAX, FETCH_N_MAX + 1}
McpImages == {Some(Urls)}
McpTitles == {"T1"}
McpFilenames == {None}

\* in the deck-level specification the downloads of a create_slide call made
\* over /mcp all succeed, and those of a /generate slide all succeed or all
\* fail; the slide-level specification takes every subset (OkSets)
GenOkSets(images) ==
    IF Truthy(images) THEN {1..Len(FirstFour(Val(images)))} ELSE {{}}

\* ------------------------------------------------------------------------
\* Initial state: the modules have been imported (_deck = _Deck(), mkdir)
\* ------------------------------------------------------------------------
InitCommon ==
    /\ deck = <<>>
    /\ calls = <<>>
    /\ artifact = NoArtifact
    /\ files = {}
    /\ pc = "idle"
    /\ req = NoReq
    /\ script = <<>>
    /\ idx = 1
    /\ last = Handled("none", None, None, "none", {}, <<>>)

\* OUT_DIR exists (mkdir at import); whether slides/slides does is up to
\* the environment
Init ==
    /\ canvas = DefaultCanvas
    /\ ratio = LEFT_COL_RATIO
    /\ dirs \in {{OUT_DIR}, {OUT_DIR, OUT_DIR \o SLIDES_DIR}}
    /\ InitCommon

\* ------------------------------------------------------------------------
\* tools/slides.py : create_slide, export_pptx on the global _deck
\* ------------------------------------------------------------------------
\* create_slide: the deck gains the slide; images[:4] are downloaded when
\* images is non-empty
CreateSlide(title, bullets, images, notes, ok) ==
    /\ deck' = add_bullet_slide(deck, canvas, ratio, title, bullets, images, notes, ok)
    /\ calls' = Append(calls, Call(title, bullets, images, notes, ok))

\* export_pptx: the presentation is written as it stands; the deck is kept
ExportPptx(filename) ==
    LET res == save(filename, dirs)
    IN  IF res.raised
        THEN UNCHANGED <<artifact, files>>
        ELSE /\ artifact' = [path |-> res.path, slides |-> deck, written |-> TRUE]
             /\ files' = files \cup {res.path}

\* ------------------------------------------------------------------------
\* main.py : /generate, in the steps of generate_deck
\* ------------------------------------------------------------------------
\* an exception leaves generate_deck: FastAPI answers 500, the locals are gone
Fail(ext) ==
    /\ pc' = "idle"
    /\ req' = NoReq
    /\ script' = <<>>
    /\ idx' = 1
    /\ last' = [last EXCEPT !.response = "500", !.ext = ext]

\* request validation (lines 73-79), before the handler body runs
GenerateStart(r) ==
    /\ pc = "idle"
    /\ IF ValidGenerateRequest(r)
       THEN /\ pc' = "script"
            /\ req' = r
            /\ last' = Handled("generate", Some(r.slides), Some(r.images_per_slide),
                               "pending", {}, deck)
       ELSE /\ last' = Handled("generate", Some(r.slides), Some(r.images_per_slide),
                               "422", {}, deck)
            /\ UNCHANGED <<pc, req>>
    /\ UNCHANGED <<canvas, ratio, dirs, deck, calls, artifact, files, script, idx>>

\* step 1 (lines 131-137): the LLM call and the check of its answer
GenerateScript(out) ==
    /\ pc = "script"
    /\ LET res == write_script(req.slides, out)
       IN  IF res.raised
           THEN Fail(last.ext \cup {"llm"})
           ELSE /\ Len(deck) + Len(res.slides) <= MaxDeck
                /\ script' = res.slides
                /\ idx' = 1
                /\ pc' = "loop"
                /\ last' = [last EXCEPT !.ext = @ \cup {"llm"}]
                /\ UNCHANGED req
    /\ UNCHANGED <<canvas, ratio, dirs, deck, calls, artifact, files>>

\* step 2 (lines 140-150): one iteration of the loop over script_data["slides"]
GenerateSlide(found, okAll) ==
    /\ pc = "loop"
    /\ idx <= Len(script)
    /\ LET slide_data == script[idx]
           wanted     == req.images_per_slide # 0
       IN  IF "title" \notin DOMAIN slide_data
           THEN \* KeyError on slide_data["title"]
                /\ Fail(last.ext)
                /\ UNCHANGED <<deck, calls>>
           ELSE LET res      == IF wanted THEN fetch_images(req.images_per_slide, found)
                                ELSE [raised |-> FALSE, searched |-> FALSE, urls |-> <<>>]
                    ext1     == IF res.searched THEN last.ext \cup {"search"} ELSE last.ext
                    img_urls == Some(res.urls)
                    ok       == IF okAll /\ Truthy(img_urls)
                                THEN 1..Len(FirstFour(res.urls)) ELSE {}
                IN  IF res.raised \/ "bullets" \notin DOMAIN slide_data
                    THEN \* RuntimeError from fetch_images, or KeyError on slide_data["bullets"]
                         /\ Fail(ext1)
                         /\ UNCHANGED <<deck, calls>>
                    ELSE /\ CreateSlide(slide_data.title, slide_data.bullets, img_urls,
                                        req.notes, ok)
                         /\ idx' = idx + 1
                         /\ last' = [last EXCEPT !.ext =
                                        IF Truthy(img_urls) THEN ext1 \cup {"fetch"} ELSE ext1]
                         /\ UNCHANGED <<pc, req, script>>
    /\ UNCHANGED <<canvas, ratio, dirs, artifact, files>>

\* request.url_for("download", filename=name): the URL path, by segments
url_for_download(name) == <<"download", name>>

\* step 3 (lines 152-163): export under SLIDES_DIR / "<base>.pptx"
GenerateExport ==
    /\ pc = "loop"
    /\ idx > Len(script)
    /\ LET base  == IF Truthy(req.filename) THEN Val(req.filename) ELSE slugify(req.topic)
           fname == Append(base, ".pptx")
           arg   == Some(SLIDES_DIR \o <<fname>>)
           res   == save(arg, dirs)
           file_path == resolve(res.path)
       IN  /\ ExportPptx(arg)
           /\ last' = IF res.raised
                      THEN [last EXCEPT !.response = "500"]
                      ELSE [last EXCEPT !.response = "200",
                                        !.file = file_path,
                                        !.url = url_for_download(PathName(file_path))]
    /\ pc' = "idle"
    /\ req' = NoReq
    /\ script' = <<>>
    /\ idx' = 1
    /\ UNCHANGED <<canvas, ratio, dirs, deck, calls>>

\* ------------------------------------------------------------------------
\* main.py : /download/{filename} (lines 96-108)
\* ------------------------------------------------------------------------
\* filename is one path segment: a file name, or ".."
DotDot == <<"..">>

\* (SLIDES_DIR / filename).resolve()
DownloadTarget(filename) ==
    IF filename = DotDot
    THEN resolve(SubSeq(SLIDES_DIR, 1, Len(SLIDES_DIR) - 1))
    ELSE resolve(Append(SLIDES_DIR, filename))

\* str(fp).startswith(str(SLIDES_DIR.resolve()))
UnderSlidesDir(fp) ==
    LET root == resolve(SLIDES_DIR)
    IN  Len(fp) >= Len(root) /\ SubSeq(fp, 1, Len(root)) = root

\* the status answered and the file served
download(filename, existing) ==
    LET fp == DownloadTarget(filename)
    IN  IF ~UnderSlidesDir(fp) THEN [status |-> "400", file |-> <<>>]
        ELSE IF fp \notin {resolve(f) : f \in existing} THEN [status |-> "404", file |-> <<>>]
        ELSE [status |-> "200", file |-> fp]

Download(filename) ==
    /\ pc = "idle"
    /\ LET res == download(filename, files)
       IN  last' = [Handled("download", None, None, res.status, {}, deck)
                       EXCEPT !.file = res.file]
    /\ UNCHANGED <<canvas, ratio, dirs, deck, calls, artifact, files, pc, req, script, idx>>

\* ------------------------------------------------------------------------
\* main.py : /mcp (mcp_rpc, lines 111-124), one action per tool
\* ------------------------------------------------------------------------
\* an exception of the tool becomes a JSON-RPC error object
RpcResponse(raised) == IF raised THEN "rpc_error" ELSE "200"

\* jsonrpc is not "2.0", or the method is not in TOOLS
McpRejected ==
    /\ pc = "idle"
    /\ last' = Handled("mcp_rejected", None, None, "400", {}, deck)
    /\ UNCHANGED <<canvas, ratio, dirs, deck, calls, artifact, files, pc, req, script, idx>>

McpWriteScript(slides, out) ==
    /\ pc = "idle"
    /\ last' = Handled("write_script", Some(slides), None,
                       RpcResponse(write_script(slides, out).raised), {"llm"}, deck)
    /\ UNCHANGED <<canvas, ratio, dirs, deck, calls, artifact, files, pc, req, script, idx>>

McpFetchImages(n, found) ==
    /\ pc = "idle"
    /\ LET res == fetch_images(n, found)
       IN  last' = Handled("fetch_images", None, Some(n), RpcResponse(res.raised),
                           IF res.searched THEN {"search"} ELSE {}, deck)
    /\ UNCHANGED <<canvas, ratio, dirs, deck, calls, artifact, files, pc, req, script, idx>>

McpCreateSlide(title, bullets, images, notes, ok) ==
    /\ pc = "idle"
    /\ Len(deck) < MaxDeck
    /\ CreateSlide(title, bullets, images, notes, ok)
    /\ last' = Handled("create_slide", None,
                       IF images = None THEN None ELSE Some(Len(Val(images))),
                       "200", IF Truthy(images) THEN {"fetch"} ELSE {}, deck)
    /\ UNCHANGED <<canvas, ratio, dirs, artifact, files, pc, req, script, idx>>

McpExportPptx(filename) ==
    /\ pc = "idle"
    /\ ExportPptx(filename)
    /\ last' = Handled("export_pptx", None, None,
                       RpcResponse(save(filename, dirs).raised), {}, deck)
    /\ UNCHANGED <<canvas, ratio, dirs, deck, calls, pc, req, script, idx>>

\* ------------------------------------------------------------------------
\* Specification of the service: requests are handled one at a time
\* ------------------------------------------------------------------------
Next ==
    \/ /\ pc = "idle"
       /\ \E r \in GenerateRequests : GenerateStart(r)
    \/ /\ pc = "script"
       /\ \E out \in LlmOutcomes : GenerateScript(out)
    \/ /\ pc = "loop"
       /\ \E found \in GenSearchOutcomes, okAll \in BOOLEAN : GenerateSlide(found, okAll)
    \/ GenerateExport
    \/ McpRejected
    \/ /\ pc = "idle"
       /\ \E n \in McpSlideCounts, out \in McpLlmOutcomes : McpWriteScript(n, out)
    \/ /\ pc = "idle"
       /\ \E n \in McpImageCounts, found \in SearchOutcomes : McpFetchImages(n, found)
    \/ /\ pc = "idle"
       /\ \E t \in McpTitles, b \in GenBullets, im \in McpImages, nt \in GenNotes :
             \E ok \in GenOkSets(im) : McpCreateSlide(t, b, im, nt, ok)
    \/ /\ pc = "idle"
       /\ \E f \in McpFilenames : McpExportPptx(f)

Spec == Init /\ [][Next]_vars

\* ------------------------------------------------------------------------
\* Specification of one slide: a fresh deck of any canvas and column ratio
\* receives one create_slide call with any arguments and download outcomes
\* ------------------------------------------------------------------------
InitSlide ==
    /\ canvas \in Canvases
    /\ ratio \in Ratios
    /\ dirs = {OUT_DIR}
    /\ InitCommon

ComposeSlide(title, bullets, images, notes, ok) ==
    /\ deck = <<>>
    /\ McpCreateSlide(title, bullets, images, notes, ok)

ExportSlide ==
    /\ deck # <<>>
    /\ ~artifact.written
    /\ McpExportPptx(Some(<<<<"a", ".pptx">>>>))

NextSlide ==
    \/ /\ deck = <<>>
       /\ \E t \in {"T1"}, b \in AllBullets, im \in AllImages, nt \in AllNotes :
             \E ok \in OkSets(im) : ComposeSlide(t, b, im, nt, ok)
    \/ ExportSlide

SpecSlide == InitSlide /\ [][NextSlide]_vars

\* ------------------------------------------------------------------------
\* Specification of the files: /generate requests of one slide with any
\* topic and filename, export_pptx calls over /mcp, and downloads
\* ------------------------------------------------------------------------
FileTopics == {<<"A", " ", "b">>, <<"é", "!">>, <<"-", "/">>}
FileFilenames == {None, Some(<<>>), Some(<<"a">>)}
FileRequests ==
    [topic : FileTopics, slides : {SLIDES_GE}, images_per_slide : {IMAGES_GE},
     filename : FileFilenames, notes : GenNotes]
FileLlmOutcomes ==
    {[kind |-> "api_error", slides |-> <<>>],
     [kind |-> "json_slides", slides |-> <<[title |-> "T1", bullets |-> <<"b1", "b2">>]>>]}
FileExportNames == {None, Some(<<<<"a", ".pptx">>>>)}
DownloadNames ==
    {Append(slugify(t), ".pptx") : t \in FileTopics}
    \cup {<<"a", ".pptx">>, DefaultName, DotDot}

NextFile ==
    \/ /\ pc = "idle"
       /\ \E r \in FileRequests : GenerateStart(r)
    \/ /\ pc = "script"
       /\ \E out \in FileLlmOutcomes : GenerateScript(out)
    \/ /\ pc = "loop"
       /\ GenerateSlide([error |-> FALSE, count |-> 1], TRUE)
    \/ GenerateExport
    \/ /\ pc = "idle"
       /\ \E f \in FileExportNames : McpExportPptx(f)
    \/ /\ pc = "idle"
       /\ \E n \in DownloadNames : Download(n)

SpecFile == Init /\ [][NextFile]_vars

TypeOK ==
    /\ pc \in {"idle", "script", "loop"}
    /\ Len(deck) = Len(calls)
    /\ Len(deck) <= MaxDeck

\* ------------------------------------------------------------------------
\* Properties
\* ------------------------------------------------------------------------
Slides(d) == {d[i] : i \in 1..Len(d)}

\* rectangle reg has non-negative size and lies in the canvas cv
InsideCanvas(reg, cv) ==
    /\ reg.width >= 0 /\ reg.height >= 0
    /\ reg.left >= 0 /\ reg.top >= 0
    /\ reg.left + reg.width <= cv.width
    /\ reg.top + reg.height <= cv.height

\* the bullet region ends at or before the column where the image region starts
SideBySide(b, m) == b.left + b.width <= m.left

\* both columns are at least two margins wide and the canvas is taller than
\* the title band plus the bottom margin
Roomy(cv, r) ==
    /\ (cv.width * r) \div RatioDen >= 2 * MARGIN_X
    /\ cv.width - (cv.width * r) \div RatioDen >= 2 * MARGIN_X
    /\ cv.height >= MARGIN_Y_TOP + MARGIN_X

\* C1 as stated: for every canvas and every ratio in (0,1) the body of a
\* composed slide and the image region do not overlap and both lie inside
\* the canvas with non-negative width and height.
C1_RegionsInsideCanvasAlways ==
    \A sl \in Slides(deck) :
        LET m == ImageRegion(canvas, ratio)
        IN  /\ SideBySide(sl.body, m)
            /\ InsideCanvas(sl.body, canvas)
            /\ InsideCanvas(m, canvas)

\* C1 amended: the body of a composed slide never overlaps the image region,
\* for every canvas and ratio; both lie inside the canvas with non-negative
\* width and height whenever the canvas is roomy for that ratio.
C1_RegionsDisjointAndInsideWhenRoomy ==
    \A sl \in Slides(deck) :
        LET m == ImageRegion(canvas, ratio)
        IN  /\ SideBySide(sl.body, m)
            /\ Roomy(canvas, ratio) =>
                  InsideCanvas(sl.body, canvas) /\ InsideCanvas(m, canvas)

\* a slide with pictures was composed on a roomy canvas that is not the
\* default layout
C1_Witness ==
    /\ Len(deck) = 1
    /\ Len(deck[1].pictures) > 0
    /\ Roomy(canvas, ratio)
    /\ canvas # DefaultCanvas
    /\ ratio # LEFT_COL_RATIO

\* ------------------------------------------------------------------------
\* The placement grid as the specification describes it
\* ------------------------------------------------------------------------
ImagesOf(call) == IF call.images = None THEN <<>> ELSE Val(call.images)

\* number of entries handed to the grid
PlacedCount(call) == IF Len(ImagesOf(call)) > 4 THEN 4 ELSE Len(ImagesOf(call))

Columns(n) == IF n = 1 THEN 1 ELSE 2

\* ceil(n / columns)
Rows(n) == CHOOSE k \in 0..n : k * Columns(n) >= n /\ (k - 1) * Columns(n) < n

\* the cell of the k-th of n urls (k = 1..n), filled row-major; half-EMU
Cell(cv, r, n, k) ==
    LET m   == ImageRegion(cv, r)
        w2  == Min(2 * IMAGE_MAX_W, (2 * m.width) \div Columns(n))
        h2  == Min(2 * IMAGE_MAX_H, (2 * m.height) \div Rows(n))
        col == (k - 1) % Columns(n)
        row == (k - 1) \div Columns(n)
    IN  [left2   |-> 2 * m.left + col * (w2 + MARGIN_X),
         top2    |-> 2 * MARGIN_Y_TOP + row * (h2 + MARGIN_X),
         width2  |-> w2,
         height2 |-> h2]

\* picture p shows url and fills cell c
Fills(p, url, c) ==
    /\ p.url = url
    /\ p.left2 = c.left2 /\ p.top2 = c.top2
    /\ p.width2 = c.width2 /\ p.height2 = c.height2

\* the j-th smallest element of the set of numbers S
Nth(S, j) == CHOOSE k \in S : Cardinality({m \in S : m < k}) = j - 1

\* C4: only the first 4 image entries reach the grid; the grid has 1 column
\* for exactly 1 url and 2 otherwise, ceil(n/columns) rows, and is filled
\* row-major; when every download succeeds the k-th url fills the k-th cell
\* (so 3 urls leave the last cell of a 2 x 2 grid empty).
C4_FirstFourInRowMajorGrid ==
    \A i \in 1..Len(deck) :
        LET imgs == ImagesOf(calls[i])
            n    == PlacedCount(calls[i])
            pics == deck[i].pictures
        IN  /\ Len(pics) <= n
            /\ \A j \in 1..Len(pics) :
                  \E k \in 1..n : Fills(pics[j], imgs[k], Cell(canvas, ratio, n, k))
            /\ calls[i].ok = 1..n =>
                  /\ Len(pics) = n
                  /\ \A k \in 1..n : Fills(pics[k], imgs[k], Cell(canvas, ratio, n, k))

\* five urls were given and all four placed ones were drawn, in two rows
C4_Witness ==
    /\ Len(deck) = 1
    /\ Len(ImagesOf(calls[1])) = 5
    /\ Len(deck[1].pictures) = 4
    /\ deck[1].pictures[3].top2 > deck[1].pictures[2].top2
    /\ deck[1].pictures[4].left2 > deck[1].pictures[3].left2

\* C5: whatever subset of the 1 to 4 downloads fails, create_slide answers
\* normally, the slide is in the deck, and the pictures drawn are exactly the
\* urls that succeeded, each in the cell of its position in the url list.
C5_FailedImagesLeaveCellsEmpty ==
    /\ Len(deck) = Len(calls)
    /\ last.handler = "create_slide" => last.response = "200"
    /\ \A i \in 1..Len(deck) :
          LET imgs == ImagesOf(calls[i])
              n    == PlacedCount(calls[i])
              ok   == calls[i].ok
              pics == deck[i].pictures
          IN  /\ Len(pics) = Cardinality(ok)
              /\ \A j \in 1..Len(pics) :
                    Fills(pics[j], imgs[Nth(ok, j)], Cell(canvas, ratio, n, Nth(ok, j)))

\* of three urls the second failed: the third is drawn alone in the second row
C5_Witness ==
    /\ Len(deck) = 1
    /\ PlacedCount(calls[1]) = 3
    /\ calls[1].ok = {1, 3}
    /\ Len(deck[1].pictures) = 2
    /\ deck[1].pictures[2].url = "u3"
    /\ deck[1].pictures[2].top2 > deck[1].pictures[1].top2
    /\ deck[1].pictures[2].left2 = deck[1].pictures[1].left2

\* C6 as stated: a slide composed with N bullets has a body of exactly N
\* paragraphs, the i-th holding the i-th bullet, for N from 0.
C6_ExactlyNParagraphs ==
    \A i \in 1..Len(deck) :
        /\ Len(deck[i].paragraphs) = Len(calls[i].bullets)
        /\ \A k \in 1..Len(calls[i].bullets) : deck[i].paragraphs[k] = calls[i].bullets[k]

\* C6 amended: with N >= 1 bullets the body has exactly N paragraphs, the
\* i-th holding the i-th bullet; with no bullets the body keeps the single
\* empty paragraph of the cleared text frame, so it has no bullet text.
C6_ParagraphsAreBulletsOrOneEmpty ==
    \A i \in 1..Len(deck) :
        LET bullets == calls[i].bullets
            paras   == deck[i].paragraphs
        IN  IF Len(bullets) = 0
            THEN paras = <<"">>
            ELSE /\ Len(paras) = Len(bullets)
                 /\ \A k \in 1..Len(bullets) : paras[k] = bullets[k]

\* two different bullets were composed, in order
C6_Witness ==
    /\ Len(deck) = 1
    /\ calls[1].bullets = <<"b2", "b1">>
    /\ deck[1].paragraphs = <<"b2", "b1">>

\* speaker notes as read from slide sl: absent, or the text of the notes frame
NotesRead(sl) == IF sl.notes = None THEN None ELSE Some(GetFrameText(Val(sl.notes)))

\* C7 as stated: any notes string given, the empty one included, is the
\* slide's speaker notes verbatim, also in the exported artifact; without a
\* notes argument the slide has no speaker notes.
C7_NotesVerbatimWheneverGiven ==
    /\ \A i \in 1..Len(deck) : NotesRead(deck[i]) = calls[i].notes
    /\ \A i \in 1..Len(artifact.slides) : NotesRead(artifact.slides[i]) = calls[i].notes

\* C7 amended: a non-empty notes string is the slide's speaker notes
\* verbatim, in the deck and in the exported artifact; with notes absent or
\* the empty string the slide has no speaker notes.
C7_NotesVerbatimWhenNonEmpty ==
    \A i \in 1..Len(deck) :
        LET given    == calls[i].notes
            expected == IF given = None \/ given = Some(<<>>) THEN None ELSE given
        IN  /\ NotesRead(deck[i]) = expected
            /\ i <= Len(artifact.slides) => NotesRead(artifact.slides[i]) = expected

\* notes of two lines were composed, exported and read back
C7_Witness ==
    /\ artifact.written
    /\ Len(artifact.slides) = 1
    /\ calls[1].notes = Some(<<"a", "\n", "a">>)
    /\ Len(Val(artifact.slides[1].notes)) = 2
    /\ NotesRead(artifact.slides[1]) = Some(<<"a", "\n", "a">>)

\* ------------------------------------------------------------------------
\* Deck-level properties
\* ------------------------------------------------------------------------
\* slide sl is what the call c was asked to compose: its title, one paragraph
\* per bullet in order, and the pictures of the downloaded urls in list order
Composes(sl, c) ==
    /\ sl.title = c.title
    /\ \A k \in 1..Len(c.bullets) : sl.paragraphs[k] = c.bullets[k]
    /\ Len(sl.pictures) = Cardinality(c.ok)
    /\ \A j \in 1..Len(sl.pictures) : sl.pictures[j].url = ImagesOf(c)[Nth(c.ok, j)]

\* the request handled last wrote an artifact
Exported == last.handler \in {"generate", "export_pptx"} /\ last.response = "200"

\* C2: an export persists exactly one slide per create_slide call made on the
\* deck so far, in call order, each with its bullets and images in input
\* order; inside /generate the calls follow the order of the script.
C2_ArtifactHasEveryCallInOrder ==
    /\ Exported => artifact.written /\ Len(artifact.slides) = Len(calls)
    /\ \A i \in 1..Len(artifact.slides) : Composes(artifact.slides[i], calls[i])
    /\ pc = "loop" =>
          /\ Len(calls) = Len(last.before) + idx - 1
          /\ \A j \in 1..(idx - 1) :
                /\ calls[Len(last.before) + j].title = script[j].title
                /\ calls[Len(last.before) + j].bullets = script[j].bullets

\* /generate exported two slides with different titles, one picture each
C2_Witness ==
    /\ last.handler = "generate" /\ last.response = "200"
    /\ Len(artifact.slides) = 2
    /\ artifact.slides[1].title = "T2" /\ artifact.slides[2].title = "T1"
    /\ Len(artifact.slides[2].pictures) = 1

\* C3: the deck is discarded on export: after an export the deck holds no
\* slide, and the artifact of a /generate request holds the slides of that
\* request only.
C3_DeckDiscardedOnExport ==
    /\ Exported => deck = <<>>
    /\ (last.handler = "generate" /\ last.response = "200") =>
          Len(artifact.slides) = Len(deck) - Len(last.before)

OutOfRange(h) ==
    \/ h.slides # None /\ Val(h.slides) \notin 1..20
    \/ h.images # None /\ Val(h.images) \notin 0..4

\* the request was refused and had no effect outside the response
RejectedEarly(h) ==
    /\ h.response \in {"422", "400", "rpc_error"}
    /\ h.ext = {}
    /\ deck = h.before

\* C8 as stated: on every entry point (/generate, and write_script,
\* fetch_images, create_slide over /mcp) a slide count outside 1..20 or an
\* image count outside 0..4 is rejected before any external call and before
\* the deck changes.
C8_OutOfRangeRejectedEverywhere ==
    (last.handler \in {"generate", "write_script", "fetch_images", "create_slide"}
        /\ OutOfRange(last)) => RejectedEarly(last)

\* C8 amended: /generate rejects such a request before any external call and
\* before the deck changes; over /mcp only fetch_images checks its count, and
\* rejects n outside 1..50 before the search; write_script calls the LLM for
\* every slide count and create_slide composes a slide for every image count.
C8_OutOfRangeRejectedByGenerate ==
    /\ (last.handler = "generate" /\ OutOfRange(last)) =>
          last.response = "422" /\ RejectedEarly(last) /\ pc = "idle"
    /\ (last.handler = "fetch_images" /\ Val(last.images) \notin 1..50) =>
          last.response = "rpc_error" /\ RejectedEarly(last)
    /\ last.handler = "write_script" => "llm" \in last.ext
    /\ last.handler = "create_slide" =>
          last.response = "200" /\ Len(deck) = Len(last.before) + 1

\* a request for 21 slides was rejected while the deck held a slide
C8_Witness ==
    /\ last.handler = "generate"
    /\ Val(last.slides) = 21
    /\ last.response = "422"
    /\ Len(deck) = 1

\* picture p, in half-EMU, lies in the rectangle reg given in EMU
PictureInside(p, reg) ==
    /\ p.width2 >= 0 /\ p.height2 >= 0
    /\ p.left2 >= 2 * reg.left
    /\ p.top2 >= 2 * reg.top
    /\ p.left2 + p.width2 <= 2 * (reg.left + reg.width)
    /\ p.top2 + p.height2 <= 2 * (reg.top + reg.height)

PicturesOverlap(p, q) ==
    /\ p.left2 < q.left2 + q.width2 /\ q.left2 < p.left2 + p.width2
    /\ p.top2 < q.top2 + q.height2 /\ q.top2 < p.top2 + p.height2

\* the image region of the specification: the columns of ImageRegion, from
\* marginTop down to the bottom margin
SpecImageRegion(cv, r) ==
    [ImageRegion(cv, r) EXCEPT !.height = cv.height - MARGIN_Y_TOP - MARGIN_X]

\* C9: every picture drawn lies inside the image region (top marginTop,
\* height canvas.height - marginTop - marginX), hence inside the canvas, and
\* no two pictures of a slide overlap.
C9_CellsInsideImageRegion ==
    \A sl \in Slides(deck) :
        /\ \A j \in 1..Len(sl.pictures) :
              /\ PictureInside(sl.pictures[j], SpecImageRegion(canvas, ratio))
              /\ PictureInside(sl.pictures[j],
                               [left |-> 0, top |-> 0,
                                width |-> canvas.width, height |-> canvas.height])
        /\ \A j, k \in 1..Len(sl.pictures) :
              j # k => ~PicturesOverlap(sl.pictures[j], sl.pictures[k])

\* C10: a /generate request that fails leaves the deck as it was before the
\* request.
C10_FailedGenerateLeavesDeck ==
    (last.handler = "generate" /\ last.response = "500") => deck = last.before

\* ------------------------------------------------------------------------
\* C11: for every topic and optional filename of a successful /generate
\* request, the file written by export_pptx lies directly in the slides
\* output directory under the name "<base>.pptx" (base is the filename, or
\* the slug of the topic), the "file" answered is the absolute path of that
\* written file, and a request of the answered URL to /download/{filename}
\* is answered with that same file, not with 404.
\* ------------------------------------------------------------------------
\* the step that ends generate_deck with the answer 200
GenerateSucceeds ==
    pc = "loop" /\ pc' = "idle" /\ last'.response = "200"

C11_GeneratedFileIsWrittenAndServed ==
    [][GenerateSucceeds =>
        LET base    == IF req.filename # None /\ Val(req.filename) # <<>>
                       THEN Val(req.filename) ELSE slugify(req.topic)
            wanted  == Append(SLIDES_DIR, Append(base, ".pptx"))
            written == artifact'.path
            served  == download(last'.url[Len(last'.url)], files')
        IN  /\ written \in files'
            /\ written = wanted
            /\ last'.file = resolve(written)
            /\ served.status = "200"
            /\ served.file = last'.file]_vars

\* what the code does instead: the file is written one directory deeper, in
\* slides/slides, the "file" answered is its absolute path, and the answered
\* URL is never served with it
GeneratedFileIsOneLevelDeeper ==
    [][GenerateSucceeds =>
        LET base    == IF req.filename # None /\ Val(req.filename) # <<>>
                       THEN Val(req.filename) ELSE slugify(req.topic)
            written == artifact'.path
            served  == download(last'.url[Len(last'.url)], files')
        IN  /\ written \in files'
            /\ written = OUT_DIR \o SLIDES_DIR \o <<Append(base, ".pptx")>>
            /\ last'.file = resolve(written)
            /\ served.file # last'.file]_vars

\* a /generate request has succeeded and its URL answers 404
GeneratedUrlNotFound ==
    /\ last.handler = "generate"
    /\ last.response = "200"
    /\ download(last.url[Len(last.url)], files).status = "404"

\* a /generate request has succeeded and its URL serves another file
GeneratedUrlServesAnotherFile ==
    /\ last.handler = "generate"
    /\ last.response = "200"
    /\ download(last.url[Len(last.url)], files).status = "200"
    /\ download(last.url[Len(last.url)], files).file # last.file

=============================================================================
